---------------------------- MODULE Spec2Model ----------------------------
(***************************************************************************)
(* BookVoyage (ReadingListProgram.py): the filter block, the ranking and   *)
(* surprise sampling, the reported match count, and the two text           *)
(* transforms (spoiler exclusion, profanity masking), the reviews shown    *)
(* under each recommendation, and what a script run does to its tables.    *)
(*                                                                         *)
(* Text is a sequence of one-character strings.  A nullable cell of a      *)
(* table is NaN (the empty tuple) or Some(v) (a one-element tuple), so an  *)
(* absent value is never confused with 0 or with the empty string.         *)
(***************************************************************************)
EXTENDS Integers, Sequences, FiniteSets, TLC

VARIABLES
    text,       \* the argument of filter_profanity
    masked,     \* its return value
    tpc,        \* "input" before the call, "done" after it
    reviews_df, \* the argument of filter_reviews_no_spoilers
    kept,       \* its return value
    rpc,        \* "input" before the call, "done" after it
    works_df,   \* the works table load_works_data returns (its cache entry)
    widgets,    \* the widget values of the last script run
    status,     \* "loaded", then the outcome of the last script run:
                \* "shown", "empty", "failed" (st.error, st.stop), "crashed"
    filtered,   \* the script's variable filtered when the try block was left
    reported,   \* the count in "Found N books matching your criteria"
    displayed,  \* the rows rendered as recommendations
    reading_list, \* the records collected for the download
    download,   \* the CSV offered by the download button, NaN for no button
    refiltered, \* outcome of filtering the result once more
    works_run,  \* the script's variable works_df when the last run ended
    genres_cache,    \* the st.cache_data entry of extract_all_genres, NaN
                     \* when there is none
    session_reviews, \* st.session_state.reviews_df, NaN for None
    review_panel     \* per rendered recommendation, its reviews section

textVars == <<text, masked, tpc>>
reviewVars == <<reviews_df, kept, rpc>>
filterVars == <<works_df, widgets, status, filtered, reported, displayed,
                reading_list, download, refiltered, works_run, genres_cache,
                session_reviews, review_panel>>

vars == <<text, masked, tpc, reviews_df, kept, rpc, works_df, widgets, status,
          filtered, reported, displayed, reading_list, download, refiltered,
          works_run, genres_cache, session_reviews, review_panel>>

\* the text transform is not in use
TextIdle == text = <<>> /\ masked = <<>> /\ tpc = "idle"

\* the spoiler filter is not in use
ReviewsIdle == reviews_df = <<>> /\ kept = <<>> /\ rpc = "idle"

\* the script is not run
FilterIdle ==
    /\ works_df = <<>> /\ widgets = <<>> /\ status = "idle"
    /\ filtered = <<>> /\ reported = <<>> /\ displayed = <<>>
    /\ reading_list = <<>> /\ download = FALSE /\ refiltered = <<>>
    /\ works_run = <<>> /\ genres_cache = <<>>
    /\ session_reviews = <<>> /\ review_panel = <<>>

----------------------------------------------------------------------------
(* Nullable cells *)

NaN == <<>>
Some(v) == <<v>>
IsNa(x) == x = NaN
Val(x) == x[1]

----------------------------------------------------------------------------
(* Characters: re.IGNORECASE folding and the \w class of Python's re *)

UpperLetters ==
    <<"A","B","C","D","E","F","G","H","I","J","K","L","M",
      "N","O","P","Q","R","S","T","U","V","W","X","Y","Z">>

LowerLetters ==
    <<"a","b","c","d","e","f","g","h","i","j","k","l","m",
      "n","o","p","q","r","s","t","u","v","w","x","y","z">>

Digits == {"0","1","2","3","4","5","6","7","8","9"}

Range(s) == {s[i] : i \in DOMAIN s}

UpperSet == Range(UpperLetters)

LowerMap ==
    [c \in UpperSet |->
        LowerLetters[CHOOSE i \in DOMAIN UpperLetters : UpperLetters[i] = c]]

Lower(c) == IF c \in UpperSet THEN LowerMap[c] ELSE c

LowerText(t) == [i \in DOMAIN t |-> Lower(t[i])]

WordChars == Range(UpperLetters) \cup Range(LowerLetters) \cup Digits \cup {"_"}

IsWordChar(c) == c \in WordChars

----------------------------------------------------------------------------
(* filter_reviews_no_spoilers *)

\* the pattern r'\(view spoiler\)\[' matches this literal text
view_spoiler == <<"(","v","i","e","w"," ","s","p","o","i","l","e","r",")","[">>

spoiler_alert == <<"s","p","o","i","l","e","r"," ","a","l","e","r","t">>

\* the literal pat matches t at position i; case = FALSE ignores letter case
LiteralAt(t, i, pat, case) ==
    /\ i + Len(pat) - 1 <= Len(t)
    /\ \A k \in 1..Len(pat) :
           IF case THEN t[i + k - 1] = pat[k]
           ELSE Lower(t[i + k - 1]) = Lower(pat[k])

\* Series.str.contains(pat, case=case, na=na) on one cell
StrContains(cell, pat, case, na) ==
    IF IsNa(cell) THEN na
    ELSE \E i \in 1..(Len(Val(cell)) + 1) : LiteralAt(Val(cell), i, pat, case)

\* the marker test reading case=True
ContainsMarkerCaseSensitive(cell) == StrContains(cell, view_spoiler, TRUE, FALSE)

ContainsMarker(cell) == StrContains(cell, view_spoiler, FALSE, FALSE)

ContainsSpoilerAlert(cell) == StrContains(cell, spoiler_alert, FALSE, FALSE)

\* df[~(mask1 | mask2)]: a boolean mask keeps the rows in their order
filter_reviews_no_spoilers(df) ==
    LET keep(r) == ~(ContainsMarker(r.review_text) \/ ContainsSpoilerAlert(r.review_text))
    IN  SelectSeq(df, keep)

----------------------------------------------------------------------------
(* Inputs of the spoiler filter *)

MaxReviews == 3

Bodies ==
    { NaN,
      Some(<<>>),
      Some(<<"(","v","i","e","w"," ","s","p","o","i","l","e","r",")","[">>),
      Some(<<"(","V","I","E","W"," ","S","P","O","I","L","E","R",")","[","t","h","e"," ","e","n","d","]">>),
      Some(<<"c","o","n","t","a","i","n","s"," ","(","v","i","e","w"," ","s","p","o","i","l","e","r",")","[","t","h","e"," ","e","n","d","i","n","g","]">>),
      Some(<<"s","p","o","i","l","e","r"," ","a","l","e","r","t">>),
      Some(<<"S","p","o","i","l","e","r"," ","A","l","e","r","t",":"," ","h","e"," ","d","i","e","s">>),
      Some(<<"n","o"," ","s","p","o","i","l","e","r","s"," ","h","e","r","e">>),
      Some(<<"v","i","e","w"," ","s","p","o","i","l","e","r">>),
      Some(<<"G","r","e","a","t"," ","b","o","o","k">>) }

\* the reviews table with the given bodies: row i carries the index label i
ReviewTable(b) == [i \in DOMAIN b |-> [idx |-> i, work_id |-> 1, review_text |-> b[i]]]

InitReviews ==
    /\ \E n \in 0..MaxReviews : \E b \in [1..n -> Bodies] : reviews_df = ReviewTable(b)
    /\ kept = <<>>
    /\ rpc = "input"
    /\ TextIdle
    /\ FilterIdle

ExcludeSpoilers ==
    /\ rpc = "input"
    /\ kept' = filter_reviews_no_spoilers(reviews_df)
    /\ rpc' = "done"
    /\ UNCHANGED <<reviews_df, textVars, filterVars>>

NextReviews == ExcludeSpoilers

SpecReviews == InitReviews /\ [][NextReviews]_vars

----------------------------------------------------------------------------
(* filter_profanity *)

profane_words ==
    << <<"f","u","c","k">>, <<"s","h","i","t">>, <<"a","s","s">>,
       <<"b","i","t","c","h">>, <<"c","r","a","p">>, <<"d","a","m","n">>,
       <<"h","e","l","l">>, <<"b","a","s","t","a","r","d">> >>

\* A regex that asks for no boundary: the pattern without its \b.
NoWordBoundary(t, k) == TRUE

\* \b between positions k and k+1 of t (k = 0: the start, k = Len(t): the end)
WordBoundary(t, k) ==
    LET before == k >= 1 /\ IsWordChar(t[k])
        after  == k < Len(t) /\ IsWordChar(t[k + 1])
    IN  before # after

\* the term w matches t at position i, ignoring case
TermAt(t, i, w) ==
    /\ i + Len(w) - 1 <= Len(t)
    /\ \A k \in 1..Len(w) : Lower(t[i + k - 1]) = w[k]

\* \b(w1|w2|...)\b tried at position i: the length matched, 0 for no match.
\* The alternatives are tried in the order of the list.
MatchLen(t, i) ==
    LET ok(j) == /\ WordBoundary(t, i - 1)
                 /\ TermAt(t, i, profane_words[j])
                 /\ WordBoundary(t, i - 1 + Len(profane_words[j]))
        hits == {j \in DOMAIN profane_words : ok(j)}
    IN  IF hits = {} THEN 0
        ELSE Len(profane_words[CHOOSE j \in hits : \A h \in hits : j <= h])

Stars(n) == [k \in 1..n |-> "*"]

\* pattern.sub(lambda match: '*' * len(match.group()), text), from position i:
\* leftmost matches, not overlapping, the rest copied.
RECURSIVE SubFrom(_, _)
SubFrom(t, i) ==
    IF i > Len(t) THEN <<>>
    ELSE LET n == MatchLen(t, i)
         IN  IF n > 0 THEN Stars(n) \o SubFrom(t, i + n)
             ELSE <<t[i]>> \o SubFrom(t, i + 1)

\* the argument is a nullable cell: not a str gives ""
filter_profanity(x) == IF IsNa(x) THEN <<>> ELSE SubFrom(Val(x), 1)

----------------------------------------------------------------------------
(* Inputs of the text transform *)

MaxLen == 5

Alphabet == {"a", "s", "S", " ", "_"}

SampleTexts ==
    { <<"T","h","i","s"," ","i","s"," ","h","e","l","l"," ","o","n"," ","e","a","r","t","h">>,
      <<"h","e","l","l","o">>,
      <<"c","l","a","s","s">>,
      <<"D","a","m","n",","," ","c","r","a","p","!">>,
      <<"a"," ","b","a","s","t","a","r","d","'","s"," ","S","H","I","T">>,
      <<"F","u","c","k","-","b","i","t","c","h","1">> }

Texts == SampleTexts \cup UNION {[1..n -> Alphabet] : n \in 0..MaxLen}

InitText ==
    /\ text \in Texts
    /\ masked = <<>>
    /\ tpc = "input"
    /\ ReviewsIdle
    /\ FilterIdle

Redact ==
    /\ tpc = "input"
    /\ masked' = filter_profanity(Some(text))
    /\ tpc' = "done"
    /\ UNCHANGED <<text, reviewVars, filterVars>>

NextText == Redact

SpecText == InitText /\ [][NextText]_vars

----------------------------------------------------------------------------
(* The works table.  A row carries its DataFrame index label idx (its      *)
(* position in the catalog).  avg_rating is in tenths (35 is 3.5).  A cell *)
(* of a numeric column read from the CSV may hold text instead of a number *)
(* (Junk); comparing it with a number raises TypeError.                    *)

Junk == <<0, 0>>
IsText(c) == Len(c) = 2

Min(a, b) == IF a <= b THEN a ELSE b

SetMin(S) == CHOOSE x \in S : \A y \in S : x <= y
SetMax(S) == CHOOSE x \in S : \A y \in S : x >= y

\* series.dropna() as the set of its values
Present(df, col) == {Val(df[i][col]) : i \in {j \in DOMAIN df : ~IsNa(df[j][col])}}

\* some cell of the column holds text
ColumnHasText(df, col) == \E i \in DOMAIN df : IsText(df[i][col])

----------------------------------------------------------------------------
(* Catalog-derived bounds (lines 321-328, 370) *)

positive_years(df) == {y \in Present(df, "original_publication_year") : y > 0}

min_year_slider(df) ==
    IF positive_years(df) # {} THEN SetMin(positive_years(df)) ELSE 1000

max_year(df) == SetMax(Present(df, "original_publication_year"))

\* int(series.dropna().min()), int(series.dropna().max()); any exception
\* (no value at all, text among the numbers) gives the defaults
safe_get_min_max(df, col, default_min, default_max) ==
    IF ColumnHasText(df, col) \/ Present(df, col) = {}
    THEN <<default_min, default_max>>
    ELSE <<SetMin(Present(df, col)), SetMax(Present(df, col))>>

Bounds(df) ==
    [min_year_slider |-> min_year_slider(df),
     max_year        |-> max_year(df),
     min_year        |-> SetMin(Present(df, "original_publication_year")),
     pages           |-> safe_get_min_max(df, "num_pages", 1, 2000)]

\* An exception outside every try block ends the script run before the
\* filter block: mean() of a rating column holding text (line 195),
\* astype(int) of a year column holding text (line 322), int(NaN) for a
\* year column with no value (line 328), and a slider whose min_value is
\* above its max_value (line 358).
Crashes(df, inp) ==
    \/ ColumnHasText(df, "avg_rating")
    \/ ColumnHasText(df, "original_publication_year")
    \/ Present(df, "original_publication_year") = {}
    \/ /\ inp.button \notin {"ancient", "classical", "modern", "c19", "c20", "c21"}
       /\ min_year_slider(df) > max_year(df)

----------------------------------------------------------------------------
(* Widgets: the values one script run reads.  A button is True only in the *)
(* run its click triggers, so one input names the button clicked, if any;  *)
(* a slider the user has moved holds Some(<<lo, hi>>).                     *)

DefaultMinRating == 35
DefaultNumBooks == 10
DefaultMinRatings == 100

Buttons == {"none", "surprise", "ancient", "classical", "modern",
            "c19", "c20", "c21", "short", "long"}

\* lines 332-363
year_range(inp, b) ==
    CASE inp.button = "ancient"   -> <<b.min_year, 500>>
      [] inp.button = "classical" -> <<500, 1500>>
      [] inp.button = "modern"    -> <<1500, b.max_year>>
      [] inp.button = "c19"       -> <<1800, 1899>>
      [] inp.button = "c20"       -> <<1900, 1999>>
      [] inp.button = "c21"       -> <<2000, b.max_year>>
      [] OTHER                    ->
            IF IsNa(inp.year_slider) THEN <<b.min_year_slider, b.max_year>>
            ELSE Val(inp.year_slider)

\* lines 374-389
page_range(inp, b) ==
    CASE inp.button = "short" -> <<b.pages[1], 250>>
      [] inp.button = "long"  -> <<400, b.pages[2]>>
      [] OTHER                ->
            IF IsNa(inp.page_slider) THEN b.pages ELSE Val(inp.page_slider)

Widgets(inp, b) ==
    [selected_genres   |-> inp.selected_genres,
     selected_authors  |-> inp.selected_authors,
     min_rating        |-> inp.min_rating,
     num_books         |-> inp.num_books,
     search_title      |-> inp.search_title,
     surprise          |-> inp.button = "surprise",
     year_range        |-> year_range(inp, b),
     page_range        |-> page_range(inp, b),
     min_ratings       |-> inp.min_ratings,
     include_keyword   |-> inp.include_keyword,
     exclude_keyword   |-> inp.exclude_keyword,
     only_with_reviews |-> inp.only_with_reviews,
     exclude_spoilers  |-> inp.exclude_spoilers,
     filter_prof       |-> inp.filter_prof]

\* the widgets left as the script creates them, nothing clicked or typed; a
\* slider left alone (NaN here) returns its value= argument, the full span
DefaultInput ==
    [button            |-> "none",
     selected_genres   |-> {},
     selected_authors  |-> {},
     min_rating        |-> DefaultMinRating,
     num_books         |-> DefaultNumBooks,
     search_title      |-> <<>>,
     year_slider       |-> NaN,
     page_slider       |-> NaN,
     min_ratings       |-> DefaultMinRatings,
     include_keyword   |-> <<>>,
     exclude_keyword   |-> <<>>,
     only_with_reviews |-> FALSE,
     exclude_spoilers  |-> TRUE,
     filter_prof       |-> TRUE]

----------------------------------------------------------------------------
(* The predicates of the filter block, each on one row (lines 427-479) *)

\* series >= n, series <= n, series > n, series < n on one cell: False for NaN
Ge(c, n) == ~IsNa(c) /\ Val(c) >= n
Le(c, n) == ~IsNa(c) /\ Val(c) <= n
Gt(c, n) == ~IsNa(c) /\ Val(c) > n
Lt(c, n) == ~IsNa(c) /\ Val(c) < n

\* re.compile raises for a pattern with an opening parenthesis and no
\* closing one; the patterns of this model are otherwise letters, digits and
\* spaces, which match literally
RegexError(pat) == "(" \in Range(pat) /\ ")" \notin Range(pat)

\* lines 428-430: any(g in x for g in selected_genres) on genres.fillna('')
KeepGenre(r, w) ==
    LET x == IF IsNa(r.genres) THEN Some(<<>>) ELSE r.genres
    IN  \E g \in w.selected_genres : StrContains(x, g, TRUE, FALSE)

\* line 433
KeepAuthor(r, w) == ~IsNa(r.author) /\ Val(r.author) \in w.selected_authors

\* lines 436-438
KeepTitle(r, w) == StrContains(r.original_title, w.search_title, FALSE, FALSE)

\* line 440
KeepRating(r, w) == Ge(r.avg_rating, w.min_rating)

\* the year predicate letting an absent year pass under every range
KeepYearNaAlways(r, w, b) ==
    \/ /\ Ge(r.original_publication_year, w.year_range[1])
       /\ Le(r.original_publication_year, w.year_range[2])
    \/ IsNa(r.original_publication_year)
    \/ /\ w.year_range = <<b.min_year_slider, b.max_year>>
       /\ Lt(r.original_publication_year, b.min_year_slider)

\* lines 444-455
KeepYear(r, w, b) ==
    IF w.year_range = <<b.min_year_slider, b.max_year>>
    THEN \/ /\ Ge(r.original_publication_year, w.year_range[1])
            /\ Le(r.original_publication_year, w.year_range[2])
         \/ IsNa(r.original_publication_year)
         \/ Lt(r.original_publication_year, b.min_year_slider)
    ELSE /\ Ge(r.original_publication_year, w.year_range[1])
         /\ Le(r.original_publication_year, w.year_range[2])

\* the page predicate without its pass for an absent page count
KeepPagesPresentOnly(r, w) ==
    Ge(r.num_pages, w.page_range[1]) /\ Le(r.num_pages, w.page_range[2])

\* lines 458-462
KeepPages(r, w) ==
    \/ Ge(r.num_pages, w.page_range[1]) /\ Le(r.num_pages, w.page_range[2])
    \/ IsNa(r.num_pages)

\* line 464
KeepCount(r, w) == Ge(r.ratings_count, w.min_ratings)

\* lines 467-470
KeepInclude(r, w) ==
    \/ StrContains(r.original_title, w.include_keyword, FALSE, FALSE)
    \/ StrContains(r.description, w.include_keyword, FALSE, FALSE)

\* lines 473-476
KeepExclude(r, w) ==
    /\ ~StrContains(r.original_title, w.exclude_keyword, FALSE, FALSE)
    /\ ~StrContains(r.description, w.exclude_keyword, FALSE, FALSE)

\* line 479
KeepReviews(r, w) == Gt(r.text_reviews_count, 0)

----------------------------------------------------------------------------
(* Ranking (lines 482-485): sort_values on two columns, both descending;   *)
(* pandas sorts several columns with a stable lexicographic sort and puts  *)
(* NaN keys last.                                                          *)

KeyVal(c) == IF IsNa(c) THEN -1 ELSE Val(c)

\* a sort that lets a later row with equal keys overtake an earlier one
BeforeOrEqual(a, b) ==
    \/ KeyVal(a.avg_rating) > KeyVal(b.avg_rating)
    \/ /\ KeyVal(a.avg_rating) = KeyVal(b.avg_rating)
       /\ KeyVal(a.ratings_count) >= KeyVal(b.ratings_count)

\* a sorts strictly before b: by=['avg_rating', 'ratings_count'],
\* ascending=[False, False]
Before(a, b) ==
    \/ KeyVal(a.avg_rating) > KeyVal(b.avg_rating)
    \/ /\ KeyVal(a.avg_rating) = KeyVal(b.avg_rating)
       /\ KeyVal(a.ratings_count) > KeyVal(b.ratings_count)

\* r put in front of the rows with equal keys
InsertBeforeEqual(s, r) ==
    LET later == {k \in DOMAIN s : ~Before(s[k], r)}
        at == IF later = {} THEN Len(s) + 1 ELSE SetMin(later)
    IN  SubSeq(s, 1, at - 1) \o <<r>> \o SubSeq(s, at, Len(s))

\* r put into the sorted s behind every row it does not sort strictly before
InsertStable(s, r) ==
    LET later == {k \in DOMAIN s : Before(r, s[k])}
        at == IF later = {} THEN Len(s) + 1 ELSE SetMin(later)
    IN  SubSeq(s, 1, at - 1) \o <<r>> \o SubSeq(s, at, Len(s))

RECURSIVE sort_values(_)
sort_values(df) ==
    IF df = <<>> THEN <<>>
    ELSE InsertStable(sort_values(SubSeq(df, 1, Len(df) - 1)), df[Len(df)])

----------------------------------------------------------------------------
(* The filter block (lines 422-485): its outcome is the value of filtered  *)
(* when the block is left, and whether an exception left it.  An exception *)
(* leaves filtered as the last completed assignment made it.               *)

Raised(f) == [err |-> TRUE, filtered |-> f]
Completed(f) == [err |-> FALSE, filtered |-> f]

FilterBlock(df, w, b) ==
    LET keepGenre(r)   == KeepGenre(r, w)
        keepAuthor(r)  == KeepAuthor(r, w)
        keepTitle(r)   == KeepTitle(r, w)
        keepRating(r)  == KeepRating(r, w)
        keepYear(r)    == KeepYear(r, w, b)
        keepPages(r)   == KeepPages(r, w)
        keepCount(r)   == KeepCount(r, w)
        keepInclude(r) == KeepInclude(r, w)
        keepExclude(r) == KeepExclude(r, w)
        keepReviews(r) == KeepReviews(r, w)
        f0  == df
        f1  == IF w.selected_genres # {} THEN SelectSeq(f0, keepGenre) ELSE f0
        f2  == IF w.selected_authors # {} THEN SelectSeq(f1, keepAuthor) ELSE f1
        f3  == IF w.search_title # <<>> THEN SelectSeq(f2, keepTitle) ELSE f2
        f4  == SelectSeq(f3, keepRating)
        f5  == SelectSeq(f4, keepYear)
        f6  == SelectSeq(f5, keepPages)
        f7  == SelectSeq(f6, keepCount)
        f8  == IF w.include_keyword # <<>> THEN SelectSeq(f7, keepInclude) ELSE f7
        f9  == IF w.exclude_keyword # <<>> THEN SelectSeq(f8, keepExclude) ELSE f8
        f10 == IF w.only_with_reviews THEN SelectSeq(f9, keepReviews) ELSE f9
    IN  IF w.search_title # <<>> /\ RegexError(w.search_title) THEN Raised(f2)
        ELSE IF ColumnHasText(f3, "avg_rating") THEN Raised(f3)
        ELSE IF ColumnHasText(f4, "original_publication_year") THEN Raised(f4)
        ELSE IF ColumnHasText(f5, "num_pages") THEN Raised(f5)
        ELSE IF ColumnHasText(f6, "ratings_count") THEN Raised(f6)
        ELSE IF w.include_keyword # <<>> /\ RegexError(w.include_keyword) THEN Raised(f7)
        ELSE IF w.exclude_keyword # <<>> /\ RegexError(w.exclude_keyword) THEN Raised(f8)
        ELSE IF w.only_with_reviews /\ ColumnHasText(f9, "text_reviews_count") THEN Raised(f9)
        ELSE Completed(sort_values(f10))

\* a sample drawn with replacement
SamplesWithReplacement(df, n) ==
    {[i \in 1..n |-> df[f[i]]] : f \in [1..n -> DOMAIN df]}

\* filtered.sample(n): n rows drawn without replacement, in any order
Samples(df, n) ==
    {[i \in 1..n |-> df[f[i]]] :
        f \in {g \in [1..n -> DOMAIN df] : \A i, j \in 1..n : i # j => g[i] # g[j]}}

\* lines 488-489: what filtered may be after the surprise step
AfterSurprise(f, w) ==
    IF w.surprise /\ f # <<>>
    THEN Samples(f, Min(w.num_books, Len(f)))
    ELSE {f}

----------------------------------------------------------------------------
(* What the script shows (lines 491-605) *)

NoDescription ==
    <<"N","o"," ","d","e","s","c","r","i","p","t","i","o","n"," ",
      "a","v","a","i","l","a","b","l","e">>

\* lines 579-587
ReadingListEntry(r) ==
    [Title       |-> r.original_title,
     Author      |-> r.author,
     Genres      |-> r.genres,
     Avg_Rating  |-> r.avg_rating,
     Year        |-> r.original_publication_year,
     Pages       |-> r.num_pages,
     Description |-> IF IsNa(r.description) THEN NoDescription
                     ELSE SubSeq(Val(r.description), 1, Min(300, Len(Val(r.description))))]

\* filtered.head(n)
head(f, n) == SubSeq(f, 1, Min(n, Len(f)))

Screen(st, f, rep, shown) ==
    [status       |-> st,
     filtered     |-> f,
     reported     |-> rep,
     displayed    |-> shown,
     reading_list |-> [i \in DOMAIN shown |-> ReadingListEntry(shown[i])],
     download     |-> shown # <<>>]

\* the count in the st.success message of line 504
ReportedCount(f, w) == Some(Len(f))

\* lines 501-605, reached when the try block raised nothing
Display(f, w) ==
    IF f = <<>> THEN Screen("empty", f, NaN, <<>>)
    ELSE Screen("shown", f, ReportedCount(f, w), head(f, w.num_books))

\* an except block that reports the error and lets the script go on
ExceptWithoutStop(f, w) ==
    [Display(f, w) EXCEPT !.status = "failed"]

\* lines 491-493: st.error, st.stop: nothing below is rendered
Except(f, w) == Screen("failed", f, NaN, <<>>)

\* an uncaught exception before the filter block
Crashed == Screen("crashed", <<>>, NaN, <<>>)

Show(scr) ==
    /\ status' = scr.status
    /\ filtered' = scr.filtered
    /\ reported' = scr.reported
    /\ displayed' = scr.displayed
    /\ reading_list' = scr.reading_list
    /\ download' = scr.download

----------------------------------------------------------------------------
(* extract_all_genres (lines 82-94), called with the script's works_df.    *)
(* st.cache_data runs the body only when it holds no entry for the         *)
(* argument; the body assigns to a column of the frame it is given.        *)

\* df['genres'] = df['genres'].fillna('')
FillGenres(df) ==
    [i \in DOMAIN df |->
        [df[i] EXCEPT !.genres = IF IsNa(@) THEN Some(<<>>) ELSE @]]

\* genres.split(','): the pieces between the commas, as a set
Split(t) ==
    LET cuts == {0, Len(t) + 1} \cup {i \in DOMAIN t : t[i] = ","}
        next(a) == SetMin({c \in cuts : c > a})
    IN  {SubSeq(t, a + 1, next(a) - 1) : a \in cuts \ {Len(t) + 1}}

\* g.strip(): leading and trailing whitespace removed
Strip(g) ==
    LET solid == {i \in DOMAIN g : g[i] \notin {" ", "\t", "\n", "\r"}}
    IN  IF solid = {} THEN <<>> ELSE SubSeq(g, SetMin(solid), SetMax(solid))

\* the return value; the sorted list of a set is given by the set
extract_all_genres(df) ==
    LET filled == FillGenres(df)
    IN  UNION {{Strip(g) : g \in Split(Val(filled[i].genres))} : i \in DOMAIN filled}
            \ {<<>>}

\* the exception of line 195 comes before the call of line 253
CrashesBeforeGenres(df) == ColumnHasText(df, "avg_rating")

----------------------------------------------------------------------------
(* The reviews section of one recommendation (lines 550-573) *)

no_review_text ==
    <<"N","o"," ","r","e","v","i","e","w"," ","t","e","x","t"," ",
      "a","v","a","i","l","a","b","l","e",".">>

\* lines 127-137: the text display_review renders for a body
display_review(body) ==
    LET clean_text == IF IsNa(body) THEN no_review_text ELSE filter_profanity(body)
        cut == SubSeq(clean_text, 1, Min(400, Len(clean_text)))
        review_display == [i \in DOMAIN cut |-> IF cut[i] = "\n" THEN " " ELSE cut[i]]
    IN  IF Len(clean_text) > 400 THEN review_display \o <<".", ".", ".">>
        ELSE review_display

\* lines 566-571: with the flag set, the body is replaced by
\* filter_profanity(body), a str, before display_review sees it
ReviewText(review, filter_prof) ==
    IF filter_prof THEN display_review(Some(filter_profanity(review.review_text)))
    ELSE display_review(review.review_text)

\* line 57: read_csv gives a column with no value at all the dtype float64,
\* and a column of a table without rows, or with some text, the dtype object
ObjectColumn(rv) == rv = <<>> \/ \E i \in DOMAIN rv : ~IsNa(rv[i].review_text)

\* lines 556-557, 101: the .str accessor of a float64 column raises
\* AttributeError, outside every try block
ReviewsRaise(sr, w) == ~IsNa(sr) /\ w.exclude_spoilers /\ ~ObjectColumn(Val(sr))

\* line 554
book_reviews(rv, row) ==
    LET same(r) == r.work_id = row.work_id
    IN  SelectSeq(rv, same)

Panel(st, total, shown) == [state |-> st, total |-> total, reviews |-> shown]

\* lines 551-573: what the section may show for the row; sr is
\* st.session_state.reviews_df
ReviewPanels(sr, row, w) ==
    IF IsNa(sr) THEN {Panel("not_loaded", 0, <<>>)}
    ELSE LET br == book_reviews(Val(sr), row)
             remaining == IF w.exclude_spoilers
                          THEN filter_reviews_no_spoilers(br) ELSE br
         IN  IF remaining = <<>> THEN {Panel("none", 0, <<>>)}
             ELSE {Panel("shown", Len(remaining),
                         [i \in DOMAIN s |->
                             [review |-> s[i],
                              text   |-> ReviewText(s[i], w.filter_prof)]]) :
                      s \in Samples(remaining, Min(2, Len(remaining)))}

\* the sections of the rendered rows, one after the other
RECURSIVE PanelSeqs(_, _, _)
PanelSeqs(shown, sr, w) ==
    IF shown = <<>> THEN {<<>>}
    ELSE {Append(p, q) :
             p \in PanelSeqs(SubSeq(shown, 1, Len(shown) - 1), sr, w),
             q \in ReviewPanels(sr, shown[Len(shown)], w)}

\* the run ends in the reviews section of the first recommendation: its
\* header is rendered, line 579 and the download button are not reached
RaisedInReviews(f, w) ==
    [Display(f, w) EXCEPT !.status = "crashed", !.displayed = <<f[1]>>,
                          !.reading_list = <<>>, !.download = FALSE]

----------------------------------------------------------------------------
(* One script run with the widget input inp: Streamlit runs the script top *)
(* to bottom on every interaction.  A click on Load Reviews Data or Clear  *)
(* Reviews Data sets st.session_state.reviews_df and starts the script     *)
(* again (st.rerun) with no button down.                                   *)

\* lines 224-239: st.session_state.reviews_df after the buttons; file is
\* what load_reviews_data returns
SessionReviews(sr, inp, file) ==
    IF inp.button = "load" /\ IsNa(sr) THEN Some(file)
    ELSE IF inp.button = "clear" /\ ~IsNa(sr) THEN NaN
    ELSE sr

Rerun(inp) ==
    /\ status # "idle"
    /\ LET early == CrashesBeforeGenres(works_df)
           miss == ~early /\ IsNa(genres_cache)
           df == IF miss THEN FillGenres(works_df) ELSE works_df
           sr == IF early THEN session_reviews
                 ELSE SessionReviews(session_reviews, inp, reviews_df)
       IN  /\ works_run' = df
           /\ genres_cache' = IF miss THEN Some(extract_all_genres(works_df))
                              ELSE genres_cache
           /\ session_reviews' = sr
           /\ IF Crashes(works_df, inp)
              THEN /\ widgets' = <<>>
                   /\ Show(Crashed)
                   /\ review_panel' = <<>>
              ELSE LET b == Bounds(df)
                       w == Widgets(inp, b)
                       r == FilterBlock(df, w, b)
                   IN  /\ widgets' = w
                       /\ IF r.err
                          THEN Show(Except(r.filtered, w)) /\ review_panel' = <<>>
                          ELSE \E f \in AfterSurprise(r.filtered, w) :
                                 IF f # <<>> /\ ReviewsRaise(sr, w)
                                 THEN /\ Show(RaisedInReviews(f, w))
                                      /\ review_panel' = <<Panel("raised", 0, <<>>)>>
                                 ELSE /\ Show(Display(f, w))
                                      /\ \E p \in PanelSeqs(Display(f, w).displayed, sr, w) :
                                             review_panel' = p
    /\ refiltered' = <<>>
    /\ UNCHANGED <<works_df, textVars, reviewVars>>

\* ttl=3600: the entry of extract_all_genres expires
CacheExpires ==
    /\ status # "idle"
    /\ ~IsNa(genres_cache)
    /\ genres_cache' = NaN
    /\ UNCHANGED <<works_df, widgets, status, filtered, reported, displayed,
                   reading_list, download, refiltered, works_run,
                   session_reviews, review_panel, textVars, reviewVars>>

\* The filter block run once more on its own result with the same widget
\* values; recompute says whether the year bounds are derived again from
\* that result (as lines 321-328 derive them from the table they are given)
\* or are those of the catalog.
Refilter(recompute) ==
    /\ status \in {"shown", "empty"}
    /\ ~widgets.surprise
    /\ refiltered = <<>>
    /\ refiltered' =
           IF recompute /\ Present(filtered, "original_publication_year") = {}
           THEN [recomputed |-> recompute, crashed |-> TRUE, err |-> FALSE, filtered |-> <<>>]
           ELSE LET b == IF recompute THEN Bounds(filtered) ELSE Bounds(works_df)
                    r == FilterBlock(filtered, widgets, b)
                IN  [recomputed |-> recompute, crashed |-> FALSE,
                     err |-> r.err, filtered |-> r.filtered]
    /\ UNCHANGED <<works_df, widgets, status, filtered, reported, displayed,
                   reading_list, download, works_run, genres_cache,
                   session_reviews, review_panel, textVars, reviewVars>>

----------------------------------------------------------------------------
(* Catalogs *)

Dune == <<"D","u","n","e">>
Emma == <<"E","m","m","a">>
fiction == <<"f","i","c","t","i","o","n">>

\* the row of the scenario: Dune, 4.2, 500 ratings, 1965, 412 pages
BaseRow ==
    [idx |-> 0, work_id |-> 0,
     original_title |-> Some(Dune), author |-> Some("Frank Herbert"),
     genres |-> Some(fiction), description |-> NaN,
     avg_rating |-> Some(42), ratings_count |-> Some(500),
     text_reviews_count |-> Some(10),
     original_publication_year |-> Some(1965), num_pages |-> Some(412)]

\* the table of the given rows; row i has index label and id i
Table(rows) == [i \in DOMAIN rows |-> [rows[i] EXCEPT !.idx = i, !.work_id = i]]

\* the state once a works table of 1..n rows drawn from Rows is loaded and
\* no script run has shown anything yet
Loaded(Rows, n) ==
    /\ \E k \in 1..n : \E rows \in [1..k -> Rows] : works_df = Table(rows)
    /\ widgets = <<>> /\ status = "loaded"
    /\ filtered = <<>> /\ reported = NaN /\ displayed = <<>>
    /\ reading_list = <<>> /\ download = FALSE /\ refiltered = <<>>
    /\ works_run = works_df /\ genres_cache = NaN
    /\ session_reviews = NaN /\ review_panel = <<>>
    /\ TextIdle /\ ReviewsIdle

----------------------------------------------------------------------------
(* Script runs that vary the publication era *)

MaxWorksYear == 3

YearCells == {NaN, Some(-300), Some(450), Some(1850), Some(1950), Some(2005)}

YearRows == {[BaseRow EXCEPT !.original_publication_year = y] : y \in YearCells}

YearSliders(df) ==
    {NaN} \cup
    IF Present(df, "original_publication_year") = {} THEN {}
    ELSE {p \in {Some(<<a, c>>) : a, c \in positive_years(df)} :
              Val(p)[1] <= Val(p)[2]}

\* an era button clicked (the slider is then not read), or the slider set
YearInputs(df) ==
    {[DefaultInput EXCEPT !.button = bt] :
        bt \in {"ancient", "classical", "modern", "c19", "c20", "c21"}}
    \cup {[DefaultInput EXCEPT !.year_slider = ys] : ys \in YearSliders(df)}

InitYear == Loaded(YearRows, MaxWorksYear)

NextYear == \E inp \in YearInputs(works_df) : Rerun(inp)

SpecYear == InitYear /\ [][NextYear]_vars

----------------------------------------------------------------------------
(* Script runs that vary the minimum number of ratings *)

MaxWorksCount == 3

CountCells == {NaN, Some(0), Some(50), Some(100), Some(500)}

CountRows == {[BaseRow EXCEPT !.ratings_count = c] : c \in CountCells}

\* st.number_input(min_value=0, value=100)
CountInputs == {[DefaultInput EXCEPT !.min_ratings = n] : n \in {0, 50, 100}}

InitCount == Loaded(CountRows, MaxWorksCount)

NextCount == \E inp \in CountInputs : Rerun(inp)

SpecCount == InitCount /\ [][NextCount]_vars

----------------------------------------------------------------------------
(* Script runs that vary ratings, the number of recommendations and the    *)
(* Surprise Me button                                                      *)

MaxWorksRank == 3

RankRows ==
    {[BaseRow EXCEPT !.avg_rating = a, !.ratings_count = c] :
        a \in {Some(30), Some(40), Some(45)}, c \in {Some(100), Some(500)}}

\* st.sidebar.slider(min_value=1, max_value=20)
RankInputs ==
    {[DefaultInput EXCEPT !.button = bt, !.num_books = n] :
        bt \in {"none", "surprise"}, n \in {1, 2, 20}}

InitRank == Loaded(RankRows, MaxWorksRank)

NextRank == \E inp \in RankInputs : Rerun(inp)

SpecRank == InitRank /\ [][NextRank]_vars

----------------------------------------------------------------------------
(* Script runs in which a predicate can raise: a keyword that is no valid  *)
(* regular expression, a numeric column holding text                       *)

MaxWorksFail == 2

du == <<"d","u">>
paren == <<"(">>

FailRows ==
    {[BaseRow EXCEPT !.original_title = t,
                     !.text_reviews_count = n, !.num_pages = g] :
        t \in {Some(Dune), Some(Emma)},
        n \in {Some(10), Junk}, g \in {Some(412), Junk}}

FailInputs ==
    {[DefaultInput EXCEPT !.search_title = t, !.include_keyword = k,
                          !.exclude_keyword = x, !.only_with_reviews = o] :
        t \in {<<>>, du, paren}, k \in {<<>>, paren}, x \in {<<>>, paren},
        o \in BOOLEAN}

InitFail == Loaded(FailRows, MaxWorksFail)

NextFail == \E inp \in FailInputs : Rerun(inp)

SpecFail == InitFail /\ [][NextFail]_vars

----------------------------------------------------------------------------
(* Script runs followed by a second filter pass over the result *)

MaxWorksIdem == 3

IdemRows ==
    {[BaseRow EXCEPT !.original_publication_year = y, !.avg_rating = a] :
        y \in {NaN, Some(-300), Some(1950), Some(2005)}, a \in {Some(42), Some(30)}}

IdemInputs(df) ==
    {[DefaultInput EXCEPT !.button = bt] : bt \in {"ancient", "c20"}}
    \cup {[DefaultInput EXCEPT !.year_slider = ys] : ys \in YearSliders(df)}

InitIdem == Loaded(IdemRows, MaxWorksIdem)

NextIdem ==
    \/ \E inp \in IdemInputs(works_df) : Rerun(inp)
    \/ \E recompute \in BOOLEAN : Refilter(recompute)

SpecIdem == InitIdem /\ [][NextIdem]_vars

----------------------------------------------------------------------------
(* Script runs with every widget at its default *)

MaxWorksDefault == 2

DefaultRows ==
    {[BaseRow EXCEPT !.avg_rating = a, !.ratings_count = c,
                     !.original_publication_year = y, !.num_pages = g] :
        a \in {Some(30), Some(35)}, c \in {NaN, Some(50), Some(100), Some(500)},
        y \in {NaN, Some(-300), Some(2005)}, g \in {NaN, Some(300)}}

InitDefault == Loaded(DefaultRows, MaxWorksDefault)

NextDefault == Rerun(DefaultInput)

SpecDefault == InitDefault /\ [][NextDefault]_vars

----------------------------------------------------------------------------
(* Sessions with a reviews file: the reviews are loaded and cleared and    *)
(* the two review flags are set                                            *)

MaxWorksSession == 2
MaxReviewsSession == 3

\* a review: the id of its work and its body
SessionReviewCells ==
    << <<1, NaN>>,
       <<1, Some(<<"s","p","o","i","l","e","r"," ","a","l","e","r","t">>)>>,
       <<1, Some(<<"D","a","m","n"," ","g","o","o","d">>)>>,
       <<2, Some(<<"G","r","e","a","t"," ","b","o","o","k">>)>> >>

\* the reviews file with the reviews c[1], c[2], ... of SessionReviewCells:
\* row i carries the index label i
SessionReviewTable(c) ==
    [i \in DOMAIN c |->
        [idx |-> i, work_id |-> SessionReviewCells[c[i]][1],
         review_text |-> SessionReviewCells[c[i]][2]]]

\* the files of n reviews, one for each choice of reviews with repetition
SessionReviewFiles(n) ==
    {SessionReviewTable(c) :
        c \in {d \in [1..n -> DOMAIN SessionReviewCells] :
                  \A i, j \in 1..n : i <= j => d[i] <= d[j]}}

\* a checkbox is set, or one of the two reviews buttons is clicked
SessionInputs ==
    {[DefaultInput EXCEPT !.exclude_spoilers = x, !.filter_prof = fp] :
        x \in BOOLEAN, fp \in BOOLEAN}
    \cup {[DefaultInput EXCEPT !.button = bt] : bt \in {"load", "clear"}}

\* the state once the works table and the reviews file are given and no
\* script run has shown anything yet
LoadedWith(Rows, n, Files) ==
    /\ \E k \in 1..n : \E rows \in [1..k -> Rows] : works_df = Table(rows)
    /\ reviews_df \in Files
    /\ kept = <<>> /\ rpc = "idle"
    /\ widgets = <<>> /\ status = "loaded"
    /\ filtered = <<>> /\ reported = NaN /\ displayed = <<>>
    /\ reading_list = <<>> /\ download = FALSE /\ refiltered = <<>>
    /\ works_run = works_df /\ genres_cache = NaN
    /\ session_reviews = NaN /\ review_panel = <<>>
    /\ TextIdle

InitSession ==
    LoadedWith({BaseRow}, MaxWorksSession,
               UNION {SessionReviewFiles(n) : n \in 0..MaxReviewsSession})

NextSession == \E inp \in SessionInputs : Rerun(inp)

SpecSession == InitSession /\ [][NextSession]_vars

----------------------------------------------------------------------------
(* Sessions over works with and without a genre field: genres are          *)
(* selected, the reviews are loaded and cleared, the cache entry of the    *)
(* genre list expires                                                      *)

MaxWorksGenres == 2

scifi_fantasy == <<"s","c","i","-","f","i",","," ","f","a","n","t","a","s","y">>
fantasy == <<"f","a","n","t","a","s","y">>

GenresRows ==
    {[BaseRow EXCEPT !.genres = g] : g \in {NaN, Some(fiction), Some(scifi_fantasy)}}

GenresInputs ==
    {[DefaultInput EXCEPT !.selected_genres = sg] : sg \in {{}, {fiction}, {fantasy}}}
    \cup {[DefaultInput EXCEPT !.button = bt] : bt \in {"load", "clear", "surprise"}}

InitGenres == LoadedWith(GenresRows, MaxWorksGenres, SessionReviewFiles(2))

NextGenres ==
    \/ \E inp \in GenresInputs : Rerun(inp)
    \/ CacheExpires

SpecGenres == InitGenres /\ [][NextGenres]_vars

----------------------------------------------------------------------------
(* C1 *)

\* the predicates of the filter block other than the year predicate
KeepOtherThanYear(r, w) ==
    /\ w.selected_genres # {} => KeepGenre(r, w)
    /\ w.selected_authors # {} => KeepAuthor(r, w)
    /\ w.search_title # <<>> => KeepTitle(r, w)
    /\ KeepRating(r, w)
    /\ KeepPages(r, w)
    /\ KeepCount(r, w)
    /\ w.include_keyword # <<>> => KeepInclude(r, w)
    /\ w.exclude_keyword # <<>> => KeepExclude(r, w)
    /\ w.only_with_reviews => KeepReviews(r, w)

Ranked == status \in {"shown", "empty"} /\ ~widgets.surprise

\* C1 as stated: under every active year range (lo, hi) a row survives the
\* year predicate iff its year y has lo <= y <= hi or its year is absent.
C1_AbsentYearAlwaysPasses ==
    Ranked =>
        \A i \in DOMAIN works_df :
            LET r == works_df[i]
                y == r.original_publication_year
            IN  KeepOtherThanYear(r, widgets) =>
                    ( r \in Range(filtered)
                      <=> \/ IsNa(y)
                          \/ /\ widgets.year_range[1] <= Val(y)
                             /\ Val(y) <= widgets.year_range[2] )

\* C1, amended: a row survives the year predicate iff its year y is present
\* with lo <= y <= hi, or the active range equals the full default span
\* (min_year_slider, max_year) and its year is absent or below
\* min_year_slider.  Under a narrower range a row with an absent year is
\* dropped.
C1_YearFilter ==
    Ranked =>
        \A i \in DOMAIN works_df :
            LET r == works_df[i]
                y == r.original_publication_year
                full == widgets.year_range =
                            <<min_year_slider(works_df), max_year(works_df)>>
            IN  KeepOtherThanYear(r, widgets) =>
                    ( r \in Range(filtered)
                      <=> \/ /\ ~IsNa(y)
                             /\ widgets.year_range[1] <= Val(y)
                             /\ Val(y) <= widgets.year_range[2]
                          \/ /\ full
                             /\ IsNa(y) \/ Val(y) < min_year_slider(works_df) )

\* an era narrower than the full span is active, a row in the era is kept
\* and a row with an absent year is dropped
C1_Witness ==
    /\ status = "shown"
    /\ widgets.year_range # <<min_year_slider(works_df), max_year(works_df)>>
    /\ \E i \in DOMAIN works_df :
           /\ IsNa(works_df[i].original_publication_year)
           /\ works_df[i] \notin Range(filtered)
    /\ \E i \in DOMAIN works_df :
           /\ ~IsNa(works_df[i].original_publication_year)
           /\ works_df[i] \in Range(filtered)

----------------------------------------------------------------------------
(* C2 *)

\* the predicates of the filter block other than the rating-count predicate
KeepOtherThanCount(r, w, b) ==
    /\ w.selected_genres # {} => KeepGenre(r, w)
    /\ w.selected_authors # {} => KeepAuthor(r, w)
    /\ w.search_title # <<>> => KeepTitle(r, w)
    /\ KeepRating(r, w)
    /\ KeepYear(r, w, b)
    /\ KeepPages(r, w)
    /\ w.include_keyword # <<>> => KeepInclude(r, w)
    /\ w.exclude_keyword # <<>> => KeepExclude(r, w)
    /\ w.only_with_reviews => KeepReviews(r, w)

\* C2: a row is kept iff its rating count, an absent count read as 0, is
\* >= the threshold; so a row with an absent count is dropped for every
\* threshold > 0 and kept for the threshold 0.
C2_AbsentCountIsZero ==
    Ranked =>
        \A i \in DOMAIN works_df :
            LET r == works_df[i]
                count == IF IsNa(r.ratings_count) THEN 0 ELSE Val(r.ratings_count)
            IN  KeepOtherThanCount(r, widgets, Bounds(works_df)) =>
                    (r \in Range(filtered) <=> count >= widgets.min_ratings)

----------------------------------------------------------------------------
(* C3, C4, C5 *)

\* every predicate of the filter block that the widget values switch on
KeepAll(r, w, b) == KeepOtherThanCount(r, w, b) /\ KeepCount(r, w)

\* the candidate set: the rows of the catalog surviving every predicate
CandidateSet == {works_df[i] : i \in {j \in DOMAIN works_df :
                                  KeepAll(works_df[j], widgets, Bounds(works_df))}}

\* C3: whenever the result is not empty, the count reported is the size of
\* the full candidate set, in ranked mode and in surprise mode alike,
\* whatever the requested count; only the displayed rows are cut to the
\* first requested-count rows of the active ordering.
C3_ReportedCountIsCandidateCount ==
    status = "shown" =>
        /\ reported = Some(Cardinality(CandidateSet))
        /\ displayed = SubSeq(filtered, 1, Min(widgets.num_books, Len(filtered)))

NoRepeats(f) == \A i, j \in DOMAIN f : i # j => f[i] # f[j]

\* C4: with surprise off the output is ordered by average rating
\* descending, then rating count descending, rows with equal keys keep
\* their catalog order, and the output is a permutation of the candidate
\* set.
C4_RankedStablePermutation ==
    Ranked =>
        /\ Range(filtered) = CandidateSet
        /\ NoRepeats(filtered)
        /\ \A i, j \in DOMAIN filtered :
               i < j =>
                   LET a == filtered[i]
                       c == filtered[j]
                   IN  \/ Val(a.avg_rating) > Val(c.avg_rating)
                       \/ /\ Val(a.avg_rating) = Val(c.avg_rating)
                          /\ Val(a.ratings_count) > Val(c.ratings_count)
                       \/ /\ Val(a.avg_rating) = Val(c.avg_rating)
                          /\ Val(a.ratings_count) = Val(c.ratings_count)
                          /\ a.idx < c.idx

\* three rows are ranked: a tie that kept its catalog order, and a row that
\* came later in the catalog and is ranked first
C4_Witness ==
    /\ Ranked
    /\ Len(filtered) = 3
    /\ \E i \in 1..2 :
           /\ filtered[i].avg_rating = filtered[i + 1].avg_rating
           /\ filtered[i].ratings_count = filtered[i + 1].ratings_count
    /\ filtered[1].idx > filtered[2].idx

\* C5: with surprise on, a candidate set of K > 0 rows and N requested,
\* exactly min(N, K) rows are returned, each a candidate, none twice; with
\* an empty candidate set the result stays empty.
C5_SurpriseSample ==
    (status \in {"shown", "empty"} /\ widgets.surprise) =>
        /\ Len(filtered) = Min(widgets.num_books, Cardinality(CandidateSet))
        /\ Range(filtered) \subseteq CandidateSet
        /\ NoRepeats(filtered)
        /\ CandidateSet = {} <=> status = "empty"

\* a sample of 2 out of 3 candidates has been drawn, not in ranked order
C5_Witness ==
    /\ status = "shown" /\ widgets.surprise
    /\ Cardinality(CandidateSet) = 3
    /\ Len(filtered) = 2
    /\ Val(filtered[1].avg_rating) < Val(filtered[2].avg_rating)

----------------------------------------------------------------------------
(* C6 *)

NothingShown ==
    /\ displayed = <<>> /\ IsNa(reported)
    /\ reading_list = <<>> /\ ~download

\* a keyword in use that str.contains cannot compile
KeywordRaises(w) ==
    \/ w.search_title # <<>> /\ RegexError(w.search_title)
    \/ w.include_keyword # <<>> /\ RegexError(w.include_keyword)
    \/ w.exclude_keyword # <<>> /\ RegexError(w.exclude_keyword)

\* C6: a failure at any position of the filter sequence ends the pass in
\* the reported-failure state, in which no recommendation row, no match
\* count and no export is produced; nothing is ever shown or exported but
\* rows that passed every predicate.
C6_AllOrNothing ==
    /\ status = "failed" => NothingShown
    /\ (status \in {"shown", "empty", "failed"} /\ KeywordRaises(widgets))
           => status = "failed"
    /\ (displayed # <<>> \/ ~IsNa(reported) \/ reading_list # <<>> \/ download)
           => /\ status = "shown"
              /\ Range(displayed) \subseteq CandidateSet
              /\ Len(reading_list) = Len(displayed)

\* a predicate raised after earlier predicates had removed a row: filtered
\* holds a partially filtered set, and nothing of it is shown
C6_Witness ==
    /\ status = "failed"
    /\ filtered # <<>>
    /\ Len(filtered) < Len(works_df)
    /\ NothingShown

----------------------------------------------------------------------------
(* C7 *)

SamePass ==
    /\ ~refiltered.crashed
    /\ ~refiltered.err
    /\ refiltered.filtered = filtered

\* C7 as stated: the filter pass run on the result of a first pass with the
\* same FilterSpec gives the same rows in the same order, also when the
\* second pass derives its bounds again from the filtered table.  (Stated
\* for the second passes that get as far as the filter block: a filtered
\* table without any year stops the script at line 328.)
C7_IdempotentAlsoRecomputed ==
    (refiltered # <<>> /\ ~refiltered.crashed) => SamePass

\* every row of the first result has a year, and it lies in the year range
YearsAllInRange ==
    \A i \in DOMAIN filtered :
        /\ ~IsNa(filtered[i].original_publication_year)
        /\ widgets.year_range[1] <= Val(filtered[i].original_publication_year)
        /\ Val(filtered[i].original_publication_year) <= widgets.year_range[2]

\* C7, amended: the second pass gives the same rows in the same order when
\* it tests the year range against the same min_year_slider and max_year as
\* the first pass; when it derives them again from the filtered table, it
\* does so at least when the first result is not empty and each of its rows
\* has a year inside the year range.
C7_Idempotent ==
    refiltered # <<>> =>
        /\ ~refiltered.recomputed => SamePass
        /\ (refiltered.recomputed /\ filtered # <<>> /\ YearsAllInRange) => SamePass

\* a second pass with the bounds of the catalog over a result of two tied
\* rows, one of them without a year, that had lost a row of the catalog
C7_Witness ==
    /\ refiltered # <<>>
    /\ ~refiltered.recomputed
    /\ Len(filtered) = 2
    /\ Len(works_df) = 3
    /\ \E i \in DOMAIN filtered : IsNa(filtered[i].original_publication_year)
    /\ refiltered.filtered = filtered

----------------------------------------------------------------------------
(* C8 *)

RankedOrder(f) ==
    \A i, j \in DOMAIN f :
        i < j =>
            \/ Val(f[i].avg_rating) > Val(f[j].avg_rating)
            \/ /\ Val(f[i].avg_rating) = Val(f[j].avg_rating)
               /\ Val(f[i].ratings_count) > Val(f[j].ratings_count)
            \/ /\ Val(f[i].avg_rating) = Val(f[j].avg_rating)
               /\ Val(f[i].ratings_count) = Val(f[j].ratings_count)
               /\ f[i].idx < f[j].idx

AllDefault == widgets = Widgets(DefaultInput, Bounds(works_df))

----------------------------------------------------------------------------
(* C10 *)

\* t[a..a+Len(w)-1] is w in some letter case, with no word character on
\* either side
WholeWordAt(t, a, w) ==
    /\ a >= 1
    /\ a + Len(w) - 1 <= Len(t)
    /\ LowerText(SubSeq(t, a, a + Len(w) - 1)) = w
    /\ a = 1 \/ ~IsWordChar(t[a - 1])
    /\ a + Len(w) - 1 = Len(t) \/ ~IsWordChar(t[a + Len(w)])

InProfaneWord(t, i) ==
    \E w \in Range(profane_words) :
        \E a \in 1..i : i <= a + Len(w) - 1 /\ WholeWordAt(t, a, w)

\* C10: filter_profanity keeps the length of the text, puts '*' at exactly
\* the positions inside a whole-word, any-case occurrence of a denylist
\* term, and leaves every other character as it was; "This is hell on
\* earth" becomes "This is **** on earth".
C10_MaskKeepsLengthAndPositions ==
    tpc = "done" =>
        /\ Len(masked) = Len(text)
        /\ \A i \in 1..Len(text) :
               masked[i] = IF InProfaneWord(text, i) THEN "*" ELSE text[i]
        /\ text = <<"T","h","i","s"," ","i","s"," ","h","e","l","l"," ","o","n"," ","e","a","r","t","h">>
               => masked = <<"T","h","i","s"," ","i","s"," ","*","*","*","*"," ","o","n"," ","e","a","r","t","h">>

\* a text holding a term as a whole word and the same term inside a longer
\* word has been masked
C10_Witness ==
    /\ tpc = "done"
    /\ \E i \in 1..Len(text) : InProfaneWord(text, i)
    /\ \E i \in 1..Len(text) :
           /\ ~InProfaneWord(text, i)
           /\ \E w \in Range(profane_words) : TermAt(text, i, w)

----------------------------------------------------------------------------
(* C9 *)

\* p occurs in t as a contiguous run
HasSub(t, p) ==
    p = <<>> \/ \E a \in 1..(Len(t) - Len(p) + 1) : SubSeq(t, a, a + Len(p) - 1) = p

IsSubsequenceInOrder(out, in) ==
    /\ \A i \in DOMAIN out : \E j \in DOMAIN in : in[j] = out[i]
    /\ \A i, j \in DOMAIN out : i < j => out[i].idx < out[j].idx

----------------------------------------------------------------------------
(* C11 *)

\* the spoiler rule on one review
IsSpoiler(r) == ContainsMarker(r.review_text) \/ ContainsSpoilerAlert(r.review_text)

\* the reviews of the loaded table for the row that remain after spoiler
\* exclusion when the flag is set
Remaining(row) ==
    IF IsNa(session_reviews) THEN {}
    ELSE {r \in Range(Val(session_reviews)) :
            /\ r.work_id = row.work_id
            /\ widgets.exclude_spoilers => ~IsSpoiler(r)}

\* a script run has rendered recommendations
Rendered == widgets # <<>> /\ displayed # <<>>

\* C11: for every displayed work and every loaded review table, the reviews
\* shown number exactly min(2, R), R being the number of reviews of that work
\* that remain after spoiler exclusion (when the flag is set); every shown
\* review belongs to the work, none is shown twice, none matches the spoiler
\* rule when the flag is set; R = 0 gives no review; with no table loaded
\* the section shows no review and does not fail.
C11_ReviewSelection ==
    Rendered =>
        /\ status = "shown"
        /\ Len(review_panel) = Len(displayed)
        /\ \A i \in DOMAIN displayed :
               LET shown == review_panel[i].reviews
               IN  /\ Len(shown) = Min(2, Cardinality(Remaining(displayed[i])))
                   /\ \A k \in DOMAIN shown : shown[k].review \in Remaining(displayed[i])
                   /\ \A k, m \in DOMAIN shown :
                          k # m => shown[k].review.idx # shown[m].review.idx

----------------------------------------------------------------------------
(* C12 *)

\* C12: every selected review whose body is absent is displayed with the
\* text "No review text available.", for both settings of the profanity
\* flag; it is never rendered as an empty string.
C12_BodilessShowsPlaceholder ==
    \A i \in DOMAIN review_panel :
        \A k \in DOMAIN review_panel[i].reviews :
            LET shown == review_panel[i].reviews[k]
            IN  IsNa(shown.review.review_text) => shown.text = no_review_text

----------------------------------------------------------------------------
(* C13 *)

\* C13: after any sequence of script runs the works table and the reviews
\* table the script holds have exactly the values they had when loaded; an
\* absent genre field is still absent, not the empty string.
C13_TablesReadOnly ==
    /\ works_run = works_df
    /\ ~IsNa(session_reviews) => Val(session_reviews) = reviews_df

============================================================================
